---- MODULE Spec2Model ----
(***************************************************************************)
(* A model of fplll's Pruner (src/fplll/pruner.h): the compact pruning     *)
(* coefficient vector b, the feasibility projection enforce, the           *)
(* load/save conversion between b and the caller's array pr, and the       *)
(* projected descent (improve / descent / optimize_pruning_coeffs).        *)
(*                                                                         *)
(* Scalars.  FT is instantiated as FP_NR<double> (line 543).  A scalar x   *)
(* is held as the integer x * FTScale (fixed point, rounding towards       *)
(* minus infinity), with FTScale = 10 * 2^13 so that .1, 1,                *)
(* epsilon = 2^-13 and min_step = 2^-12 are exact and b * (1 + epsilon)    *)
(* differs from b for every b >= .1.  Products are formed in pieces that   *)
(* stay inside TLC's 32-bit integers.  Vectors keep the source's           *)
(* zero-based indices: an evec of a Pruner of degree d is a function on    *)
(* 0..d-1.                                                                 *)
(*                                                                         *)
(* cost_factor (lines 422-431) is a real-valued functional of b built from *)
(* sqrt, log, pow and the tabulated constants; it is a pure function of b  *)
(* once the basis shape and the parameters are fixed.  It is modelled as   *)
(* an arbitrary positive function of b: its values are chosen from         *)
(* CostValues the first time a vector is evaluated and remembered in memo, *)
(* so every behaviour of the model is the behaviour of the code under some *)
(* cost functional.                                                        *)
(***************************************************************************)
EXTENDS Integers, FiniteSets, Sequences, TLC

VARIABLES
  n,        \* Pruner::n, dimension of the loaded block (0 before load)
  d,        \* Pruner::d = n/2
  pr,       \* the caller's coefficient array, a function on 0..len-1
  b,        \* the evec the running (or last) call works on
  b0,       \* the evec as it was when enforce was last entered from outside
  j,        \* pivot passed to enforce by the enforce driver
  status,   \* value returned by that enforce call
  app,      \* number of enforce applications made by the enforce driver
  op,       \* name of the running (or last) public entry point
  err,      \* outcome of the last public call: "none" or the exception
  oob,      \* indices outside 0..d-1 at which the last call accessed its evec
  pc,       \* position inside optimize_pruning_coeffs
  cf,       \* improve: cf
  old_cf,   \* improve: old_cf
  newb,     \* improve: newb
  res,      \* improve: gradient as cost_factor_derivative filled it
  norm,     \* improve: norm
  gradient, \* improve: gradient, after normalisation
  step,     \* improve: step
  acc,      \* improve: the outer loop counter i (accepted steps)
  ret,      \* value returned by the last improve call
  memo,     \* the cost_factor values seen so far
  calls,    \* number of optimize_pruning_coeffs calls started
  reset,    \* the reset argument of the running (or last) optimize call
  hist      \* bookkeeping about the calls, read only by the properties

vars ==
  <<n, d, pr, b, b0, j, status, app, op, err, oob, pc, cf, old_cf, newb,
    res, norm, gradient, step, acc, ret, memo, calls, reset, hist>>

-----------------------------------------------------------------------------
(* Bounds of the model. *)

MaxD ==
  3

MaxQuarter ==
  5

MaxN ==
  5

MaxRepeatN ==
  4

MaxFairN ==
  4

MaxCost ==
  20000

-----------------------------------------------------------------------------
(* Scalars. *)

FTScale ==
  10 * 2^13

one ==
  FTScale

Tenth ==
  FTScale \div 10

epsilon ==
  FTScale \div 2^13

min_step ==
  FTScale \div 2^12

(* floor(2^.5 * FTScale) *)
step_factor ==
  115852

(* min_cf_decrease = .9999 as a fraction *)
min_cf_decrease_num ==
  9999

min_cf_decrease_den ==
  10000

(* x * y for x >= 0: floor(x * y / FTScale), formed without a product      *)
(* above 2^31.                                                             *)
FTMul(x, y) ==
  LET q == y \div FTScale
      r == y % FTScale
      a == x \div 2^13
      c == x % 2^13
  IN x * q + (a * r + (c * r) \div 2^13) \div 10

(* a / c rounded towards zero, c > 0. *)
SDiv(a, c) ==
  IF a >= 0 THEN a \div c ELSE -((-a) \div c)

Abs(x) ==
  IF x >= 0 THEN x ELSE -x

RECURSIVE SqrtSearch(_, _, _)
SqrtSearch(x, lo, hi) ==
  IF lo >= hi
    THEN lo
    ELSE LET mid == (lo + hi + 1) \div 2
         IN IF mid * mid <= x
              THEN SqrtSearch(x, mid, hi)
              ELSE SqrtSearch(x, lo, mid - 1)

(* floor(sqrt(x)), 0 <= x < 2^31. *)
ISqrt(x) ==
  SqrtSearch(x, 0, 46340)

EmptyVec ==
  [i \in {} |-> 0]

-----------------------------------------------------------------------------
(* enforce, lines 296-314. *)

RECURSIVE RightSweep(_, _, _, _)
RightSweep(v, dd, i, s) ==
  IF i >= dd - 1
    THEN [b |-> v, status |-> s]
    ELSE IF v[i + 1] < v[i]
           THEN RightSweep([v EXCEPT ![i + 1] = v[i]], dd, i + 1, 1)
           ELSE RightSweep(v, dd, i + 1, s)

RECURSIVE LeftSweep(_, _, _)
LeftSweep(v, i, s) ==
  IF i < 0
    THEN [b |-> v, status |-> s]
    ELSE IF v[i + 1] < v[i]
           THEN LeftSweep([v EXCEPT ![i] = v[i + 1]], i - 1, 1)
           ELSE LeftSweep(v, i - 1, s)

Clamp(x) ==
  LET x1 == IF x > one THEN one ELSE x
  IN IF x1 <= Tenth THEN Tenth ELSE x1

(* enforce with the left sweep started one index too low (j - 2). *)
enforce_LeftSweepOffByOne(v, dd, jj) ==
  LET s0 == IF v[dd - 1] < one THEN 1 ELSE 0
      v1 == [v EXCEPT ![dd - 1] = one]
      s1 == IF \E i \in 0..(dd - 1) : v1[i] > one THEN 1 ELSE s0
      v2 == [i \in 0..(dd - 1) |-> Clamp(v1[i])]
      r  == RightSweep(v2, dd, jj, s1)
  IN LeftSweep(r.b, jj - 2, r.status)

(* enforce with the lower clamp (b[i] <= .1) also setting status. *)
enforce_LowClampSetsStatus(v, dd, jj) ==
  LET s0 == IF v[dd - 1] < one THEN 1 ELSE 0
      v1 == [v EXCEPT ![dd - 1] = one]
      s1 == IF \E i \in 0..(dd - 1) : v1[i] > one \/ v1[i] <= Tenth
              THEN 1 ELSE s0
      v2 == [i \in 0..(dd - 1) |-> Clamp(v1[i])]
      r  == RightSweep(v2, dd, jj, s1)
  IN LeftSweep(r.b, jj - 1, r.status)

enforce(v, dd, jj) ==
  LET s0 == IF v[dd - 1] < one THEN 1 ELSE 0
      v1 == [v EXCEPT ![dd - 1] = one]
      s1 == IF \E i \in 0..(dd - 1) : v1[i] > one THEN 1 ELSE s0
      v2 == [i \in 0..(dd - 1) |-> Clamp(v1[i])]
      r  == RightSweep(v2, dd, jj, s1)
  IN LeftSweep(r.b, jj - 1, r.status)

(* The three feasibility invariants of a compact vector (spec section 3). *)
Feasible(v, dd) ==
  /\ v[dd - 1] = one
  /\ \A i \in 0..(dd - 1) : Tenth <= v[i] /\ v[i] <= one
  /\ \A i \in 0..(dd - 2) : v[i] <= v[i + 1]

-----------------------------------------------------------------------------
(* The enforce driver: enforce applied, twice in a row, to an arbitrary     *)
(* vector and pivot.                                                       *)

InVals ==
  {Tenth \div 2, Tenth} \cup {k * (one \div 4) : k \in 1..MaxQuarter}

(* No optimize_pruning_coeffs call has been made: improve's locals hold     *)
(* nothing.                                                                *)
NoDescent ==
  /\ cf = 0 /\ old_cf = 0 /\ newb = EmptyVec /\ res = EmptyVec /\ norm = 0
  /\ gradient = EmptyVec /\ step = 0 /\ acc = 0 /\ ret = 0
  /\ memo = EmptyVec /\ calls = 0 /\ reset = 0

InitEnforce ==
  /\ NoDescent
  /\ n = 0 /\ pr = EmptyVec /\ op = "enforce" /\ err = "none" /\ oob = {}
  /\ pc = "idle"
  /\ d \in 1..MaxD
  /\ b0 \in [0..(d - 1) -> InVals]
  /\ b = b0
  /\ hist = b0
  /\ j \in 0..(d - 1)
  /\ status = 0
  /\ app = 0

EnforceStep ==
  /\ app < 2
  /\ LET r == enforce(b, d, j)
     IN /\ b0' = b
        /\ b' = r.b
        /\ status' = r.status
  /\ app' = app + 1
  /\ UNCHANGED <<n, d, pr, j, op, err, oob, pc, cf, old_cf, newb, res, norm, gradient,
                 step, acc, ret, memo, calls, reset, hist>>

NextEnforce ==
  EnforceStep

SpecEnforce ==
  InitEnforce /\ [][NextEnforce]_vars

(* C7: for every d >= 1, every vector and every pivot j in 0..d-1, the     *)
(* vector enforce leaves behind is feasible: b[d-1] = 1, every entry lies  *)
(* in [0.1, 1], and no entry exceeds its right neighbour (so no descent    *)
(* is left across the pivot either).                                       *)
EnforceRestoresFeasibility ==
  app >= 1 => Feasible(b, d)

(* C7 witness: enforce has run once, with a pivot j >= 1, on a vector that *)
(* had an entry below 0.1, an entry above 1 and a descent across j.        *)
EnforceRepairedAcrossPivot ==
  /\ app = 1
  /\ j >= 1
  /\ b0[j] < b0[j - 1]
  /\ \E i \in 0..(d - 1) : b0[i] < Tenth
  /\ \E i \in 0..(d - 1) : b0[i] > one
  /\ b # b0

(* C8: enforce returns 1 exactly when the vector after the call differs   *)
(* from the vector before it, and 0 exactly when it is left as it was.     *)
EnforceStatusIffChanged ==
  app = 1 => (status = 1 <=> b # b0)

(* C9: a second enforce(b, j) on the result of the first leaves the vector *)
(* unchanged and returns status 0.                                         *)
EnforceIdempotent ==
  app = 2 => (b = b0 /\ status = 0)

(* C9 witness: enforce has run twice with a pivot j >= 1 and the first run *)
(* changed the vector it was given.                                        *)
EnforceTwiceAfterChange ==
  /\ app = 2
  /\ j >= 1
  /\ hist # b
  /\ \E i \in 0..(d - 1) : hist[i] < Tenth

-----------------------------------------------------------------------------
(* The conversions between the caller's array pr and the compact vector.   *)

(* get_d narrowing the value to fewer mantissa bits. *)
get_d_Narrowed(x) ==
  (x \div 2^5) * 2^5

(* FP_NR<double>::get_d(), lines 290-291: FT is double (line 543), the      *)
(* stored double is returned as it is.                                     *)
get_d(x) ==
  x

(* load_prunning_coeffs, lines 267-276.  The local evec is uninitialised    *)
(* and has no element b[d-1] when d = 0: enforce then reads and writes     *)
(* b[-1], outside the array; garbage is the value it finds there.          *)
load_prunning_coeffs(p, nn, dd, garbage) ==
  LET v == [i \in 0..(dd - 1) |-> p[nn - 1 - 2 * i]]
  IN IF dd = 0
       THEN [in |-> v, b |-> v, oob |-> {dd - 1},
             status |-> IF garbage < one THEN 1 ELSE 0]
       ELSE LET r == enforce(v, dd, 0)
            IN [in |-> v, b |-> r.b, oob |-> {}, status |-> r.status]

(* The loop of save_prunning_coeffs with the un-reversed indices 2i, 2i+1. *)
RECURSIVE SaveLoop_NotReversed(_, _, _, _, _)
SaveLoop_NotReversed(p, v, nn, dd, i) ==
  IF i >= dd
    THEN p
    ELSE SaveLoop_NotReversed(
           [p EXCEPT ![2 * i + 1] = get_d(v[i]), ![2 * i] = get_d(v[i])],
           v, nn, dd, i + 1)

RECURSIVE SaveLoop(_, _, _, _, _)
SaveLoop(p, v, nn, dd, i) ==
  IF i >= dd
    THEN p
    ELSE SaveLoop(
           [p EXCEPT ![nn - 1 - 2 * i] = get_d(v[i]),
                     ![nn - 2 - 2 * i] = get_d(v[i])],
           v, nn, dd, i + 1)

(* save_prunning_coeffs, lines 287-294. *)
save_prunning_coeffs(p, v, nn, dd) ==
  [SaveLoop(p, v, nn, dd, 0) EXCEPT ![0] = one]

-----------------------------------------------------------------------------
(* The public queries on a constructed Pruner.  The caller owns an array   *)
(* of MaxN doubles holding anything; the Pruner starts with n = d = 0.     *)

PrVals ==
  {Tenth \div 2, Tenth, one \div 2, one, one + one \div 4}

InitQuery ==
  /\ NoDescent
  /\ n = 0 /\ d = 0
  /\ pr \in [0..(MaxN - 1) -> PrVals]
  /\ b = EmptyVec /\ b0 = EmptyVec /\ j = 0 /\ status = 0 /\ app = 0
  /\ op = "Pruner" /\ err = "none" /\ oob = {} /\ pc = "idle"
  /\ hist = EmptyVec

(* load_basis_shape(dim, gso_sq_norms), lines 199-227.  n and d are        *)
(* assigned before the dimension check.  r, pv and renormalization_factor *)
(* are read by cost alone.                                                 *)
load_basis_shape ==
  \E dim \in 0..MaxN :
    /\ n' = dim
    /\ d' = dim \div 2
    /\ op' = "load_basis_shape"
    /\ err' = IF dim \div 2 = 0 THEN "DimensionTooSmall" ELSE "none"
    /\ b' = EmptyVec /\ b0' = EmptyVec /\ status' = 0 /\ oob' = {}
    /\ UNCHANGED <<pr, j, app, pc, cf, old_cf, newb, res, norm, gradient, step, acc,
                   ret, memo, calls, reset, hist>>

(* The body shared by the three queries, lines 230-249: an evec is loaded  *)
(* from pr and the quantity computed from it is returned, unless the load  *)
(* throws.  Nothing calls check_loaded_basis (lines 278-285).              *)
Query(name) ==
  \E garbage \in {one \div 2, one} :
    LET l == load_prunning_coeffs(pr, n, d, garbage)
    IN /\ op' = name
       /\ b0' = l.in
       /\ b' = l.b
       /\ status' = l.status
       /\ oob' = l.oob
       /\ err' = IF l.status # 0 THEN "InfeasibleCoefficients" ELSE "none"
       /\ UNCHANGED <<n, d, pr, j, app, pc, cf, old_cf, newb, res, norm, gradient, step,
                      acc, ret, memo, calls, reset, hist>>

get_svp_success_proba ==
  Query("get_svp_success_proba")

get_enum_cost ==
  Query("get_enum_cost")

get_enum_cost_with_retrials ==
  Query("get_enum_cost_with_retrials")

Queries ==
  {"get_svp_success_proba", "get_enum_cost", "get_enum_cost_with_retrials"}

NextQuery ==
  \/ load_basis_shape
  \/ get_svp_success_proba
  \/ get_enum_cost
  \/ get_enum_cost_with_retrials

SpecQuery ==
  InitQuery /\ [][NextQuery]_vars

(* C1: on a Pruner loaded with n >= 2, a query fails with                  *)
(* InfeasibleCoefficients whenever the extracted vector b[i] = pr[n-1-2i]  *)
(* violates one of the three feasibility invariants, and succeeds only     *)
(* when it satisfies all three.                                            *)
LoadRejectsExactlyInfeasible ==
  (op \in Queries /\ d >= 1) =>
    (err = "InfeasibleCoefficients" <=> ~Feasible(b0, d))

(* C2: a query on a Pruner on which load_basis_shape has not succeeded     *)
(* (d = 0) raises BasisNotLoaded and accesses no element of its evec.      *)
QueryBeforeLoadRaisesBasisNotLoaded ==
  (op \in Queries /\ d = 0) => (err = "BasisNotLoaded" /\ oob = {})

-----------------------------------------------------------------------------
(* Saving a feasible vector and loading it back.                           *)

FeasibleVecs(dd) ==
  {v \in [0..(dd - 1) -> InVals] : Feasible(v, dd)}

InitSaveLoad ==
  /\ NoDescent
  /\ n \in 2..(2 * MaxD + 1)
  /\ d = n \div 2
  /\ \E g \in {Tenth \div 2, 2 * one} : pr = [k \in 0..(n - 1) |-> g]
  /\ b \in FeasibleVecs(d)
  /\ hist = b
  /\ b0 = EmptyVec /\ j = 0 /\ status = 0 /\ app = 0
  /\ op = "none" /\ err = "none" /\ oob = {} /\ pc = "start"

SaveStep ==
  /\ pc = "start"
  /\ pr' = save_prunning_coeffs(pr, b, n, d)
  /\ \E g \in {Tenth \div 2, 2 * one} : b' = [i \in 0..(d - 1) |-> g]
  /\ op' = "save_prunning_coeffs"
  /\ pc' = "saved"
  /\ UNCHANGED <<n, d, b0, j, status, app, err, oob, cf, old_cf, newb,
                 res, norm, gradient, step, acc, ret, memo, calls, reset, hist>>

LoadStep ==
  /\ pc = "saved"
  /\ LET l == load_prunning_coeffs(pr, n, d, one)
     IN /\ b0' = l.in
        /\ b' = l.b
        /\ status' = l.status
        /\ oob' = l.oob
        /\ err' = IF l.status # 0 THEN "InfeasibleCoefficients" ELSE "none"
  /\ op' = "load_prunning_coeffs"
  /\ pc' = "loaded"
  /\ UNCHANGED <<n, d, pr, j, app, cf, old_cf, newb, res, norm, gradient, step, acc,
                 ret, memo, calls, reset, hist>>

NextSaveLoad ==
  \/ SaveStep
  \/ LoadStep

SpecSaveLoad ==
  InitSaveLoad /\ [][NextSaveLoad]_vars

(* C5: for every n >= 2 and every feasible b, after save the array has     *)
(* pr[0] = 1 and pr[n-1-2i] = pr[n-2-2i] = b[i] for all i (so the final    *)
(* write pr[0] := 1 changed no entry that load reads), and the load that   *)
(* follows does not fail and yields the vector that was saved.             *)
SaveLoadRoundTrip ==
  /\ pc \in {"saved", "loaded"} =>
       /\ pr[0] = one
       /\ \A i \in 0..(d - 1) :
            pr[n - 1 - 2 * i] = hist[i] /\ pr[n - 2 - 2 * i] = hist[i]
  /\ pc = "loaded" => (err = "none" /\ b = hist)

(* C5 witness: an odd n with a non-constant feasible vector saved and      *)
(* loaded back.                                                            *)
RoundTripOddN ==
  /\ pc = "loaded"
  /\ n % 2 = 1
  /\ d >= 2
  /\ hist[0] < hist[d - 1]
  /\ b = hist

-----------------------------------------------------------------------------
(* The descent.                                                            *)

(* The values cost_factor may take: two that differ by less than the       *)
(* min_cf_decrease ratio and one far below them.                           *)
CostValues ==
  {MaxCost \div 2, MaxCost - 1, MaxCost}

(* cost_factor, lines 422-431: the value of the cost functional m at v. *)
cost_factor(m, v) ==
  m[v]

RECURSIVE Log2Floor(_)
Log2Floor(x) ==
  IF x < 2 THEN 0 ELSE 1 + Log2Floor(x \div 2)

(* log, in units of 2^-14 of a doubling: the integer part of log2 plus a   *)
(* linear interpolation of the mantissa.  The base of the logarithm is a   *)
(* common factor of the gradient, which the normalisation removes.         *)
log(x) ==
  LET k == Log2Floor(x)
  IN k * 2^14 + ((x - 2^k) * 2^14) \div 2^k

(* bpDb of cost_factor_derivative, lines 440-442 and 445-447: b with entry *)
(* i multiplied by factor, then enforce(bpDb, i). *)
Perturbed(v, dd, i, factor) ==
  enforce([v EXCEPT ![i] = FTMul(v[i], factor)], dd, i).b

PerturbedVecs(v, dd) ==
  {Perturbed(v, dd, i, one - epsilon) : i \in 0..(dd - 2)}
    \cup {Perturbed(v, dd, i, one + epsilon) : i \in 0..(dd - 2)}

(* cost_factor_derivative, lines 435-455: the out argument res.  The       *)
(* division by epsilon = 2^-13 shifts the exponent only: res is held in    *)
(* units of epsilon * 2^-14.  The function is declared to return FT and    *)
(* returns nothing; improve (line 463) reads no value from the call, and   *)
(* the function is taken as void.                                          *)
cost_factor_derivative(m, v, dd) ==
  [i \in 0..(dd - 1) |->
     IF i = dd - 1
       THEN 0
       ELSE LET X == cost_factor(m, Perturbed(v, dd, i, one - epsilon))
                Y == cost_factor(m, Perturbed(v, dd, i, one + epsilon))
            IN log(X) - log(Y)]

RECURSIVE MaxAbs(_, _)
MaxAbs(g, i) ==
  IF i < 0
    THEN 0
    ELSE LET rest == MaxAbs(g, i - 1)
         IN IF Abs(g[i]) > rest THEN Abs(g[i]) ELSE rest

RECURSIVE SumSq(_, _)
SumSq(g, i) ==
  IF i < 0 THEN 0 ELSE g[i] * g[i] + SumSq(g, i - 1)

(* The entries of g brought to a common exponent, as floating point does:  *)
(* the largest magnitude becomes 2^10.                                     *)
Scaled(g, dd) ==
  LET mx == MaxAbs(g, dd - 1)
  IN [i \in 0..(dd - 1) |-> IF mx = 0 THEN 0 ELSE SDiv(g[i] * 2^10, mx)]

(* improve, lines 472-477: norm = sqrt(sum gradient[i]^2 / d), in the      *)
(* units of Scaled; it is 0 exactly when every entry of g is 0.            *)
Norm(g, dd) ==
  ISqrt(SumSq(Scaled(g, dd), dd - 1) \div dd)

(* improve, lines 485-487: gradient[i] /= norm, for norm > 0. *)
Normalised(g, nm, dd) ==
  LET sc == Scaled(g, dd)
  IN [i \in 0..(dd - 1) |-> SDiv(sc[i] * FTScale, nm)]

(* The candidate of one line-search iteration, lines 494-498. *)
Candidate(nb, g, st, dd) ==
  enforce([i \in 0..(dd - 1) |-> nb[i] + FTMul(st, g[i])], dd, 0).b

(* The line-search iteration with b = newb placed before the test. *)
LineSearchBody_AssignBeforeTest(bb, nb, cfv, st, i, new_cf) ==
  IF new_cf >= cfv
    THEN [b |-> nb, cf |-> cfv, step |-> st, i |-> i, brk |-> TRUE]
    ELSE [b |-> nb, cf |-> new_cf, step |-> FTMul(st, step_factor),
          i |-> i + 1, brk |-> FALSE]

(* The rest of one line-search iteration, lines 503-508: break, or accept  *)
(* the candidate and lengthen the step.                                    *)
LineSearchBody(bb, nb, cfv, st, i, new_cf) ==
  IF new_cf >= cfv
    THEN [b |-> bb, cf |-> cfv, step |-> st, i |-> i, brk |-> TRUE]
    ELSE [b |-> nb, cf |-> new_cf, step |-> FTMul(st, step_factor),
          i |-> i + 1, brk |-> FALSE]

(* The end of improve with the min_cf_decrease test left out. *)
ImproveReturn_NoRatioTest(cfv, old, i) ==
  i

(* The end of improve, lines 511-514. *)
ImproveReturn(cfv, old, i) ==
  IF cfv * min_cf_decrease_den > old * min_cf_decrease_num THEN 0 ELSE i

(* init_prunning_coeffs with enforce left out. *)
init_prunning_coeffs_NotEnforced(dd) ==
  [i \in 0..(dd - 1) |-> Tenth + (i * one) \div dd]

(* init_prunning_coeffs, lines 523-529. *)
init_prunning_coeffs(dd) ==
  enforce([i \in 0..(dd - 1) |-> Tenth + (i * one) \div dd], dd, 0).b

(* The loop test of descent with the sense of the test inverted. *)
DescentContinues_Inverted(r) ==
  r = 0

(* The loop test of descent, line 519: while (improve(b)). *)
DescentContinues(r) ==
  r # 0

(* m extended by f on the vectors it does not hold yet. *)
Extend(m, f) ==
  [v \in DOMAIN m \cup DOMAIN f |-> IF v \in DOMAIN m THEN m[v] ELSE f[v]]

(* The caller's array before the first call: all halves, three ones       *)
(* followed by halves, or all ones.                                        *)
OptArrays(nn) ==
  {[k \in 0..(nn - 1) |-> IF k < c THEN one ELSE one \div 2] : c \in {0, 3, nn}}

(* hist: prev_pr, the array as the running call found it; prev_done,        *)
(* prev_acc and prev_fin, whether the call before it returned, the steps   *)
(* it accepted and those its last improve accepted; done, whether the      *)
(* running call has returned; call_acc, the steps it has accepted;         *)
(* improves, the improve calls it has made; entry_cf, cost_factor(b) as    *)
(* its first improve computed it.                                          *)
NoCall ==
  [prev_pr |-> EmptyVec, prev_fin |-> 0, prev_acc |-> 0, prev_done |-> FALSE,
   done |-> FALSE, call_acc |-> 0, entry_cf |-> 0, improves |-> 0]

InitOpt ==
  /\ n \in 2..MaxN
  /\ d = n \div 2
  /\ pr \in OptArrays(n)
  /\ b = EmptyVec /\ b0 = EmptyVec /\ j = 0 /\ status = 0 /\ app = 0
  /\ op = "load_basis_shape" /\ err = "none" /\ oob = {} /\ pc = "idle"
  /\ NoDescent
  /\ hist = NoCall

(* optimize_pruning_coeffs(pr, rs), lines 253-260: the evec is initialised *)
(* or loaded from pr; the load may throw.                                  *)
OptimizeStart(rs) ==
  /\ LET l == load_prunning_coeffs(pr, n, d, one)
     IN /\ reset' = rs
        /\ b0' = IF rs # 0 THEN b0 ELSE l.in
        /\ b' = IF rs # 0 THEN init_prunning_coeffs(d) ELSE l.b
        /\ status' = IF rs # 0 THEN status ELSE l.status
        /\ err' = IF rs = 0 /\ l.status # 0
                    THEN "InfeasibleCoefficients" ELSE "none"
        /\ pc' = IF rs = 0 /\ l.status # 0 THEN "idle" ELSE "descent"
  /\ op' = "optimize_pruning_coeffs"
  /\ calls' = calls + 1
  /\ hist' = [prev_pr |-> pr, prev_fin |-> acc, prev_acc |-> hist.call_acc,
              prev_done |-> hist.done, done |-> FALSE, call_acc |-> 0,
              entry_cf |-> 0, improves |-> 0]
  /\ UNCHANGED <<n, d, pr, j, app, oob, cf, old_cf, newb, res, norm, gradient, step,
                 acc, ret, memo>>

(* The call under study: any reset, on the array the caller holds. *)
optimize_pruning_coeffs ==
  /\ pc = "idle"
  /\ calls = 0
  /\ \E rs \in {0, 1} : OptimizeStart(rs)

(* The repeated call: reset = 0 on the array the first call returned, with *)
(* the shape and the parameters (hence the cost functional) unchanged.     *)
optimize_again ==
  /\ pc = "idle"
  /\ calls = 1
  /\ hist.done
  /\ OptimizeStart(0)

(* improve, lines 457-491: cf, the gradient and its norm; returns 0 when   *)
(* norm <= 0, else enters the line search.                                 *)
improve_begin ==
  /\ pc = "descent"
  /\ \E f \in [(({b} \cup PerturbedVecs(b, d)) \ DOMAIN memo) -> CostValues] :
       memo' = Extend(memo, f)
  /\ cf' = cost_factor(memo', b)
  /\ old_cf' = cost_factor(memo', b)
  /\ res' = cost_factor_derivative(memo', b, d)
  /\ norm' = Norm(res', d)
  /\ newb' = b
  /\ gradient' = IF norm' <= 0 THEN res' ELSE Normalised(res', norm', d)
  /\ step' = IF norm' <= 0 THEN step ELSE min_step
  /\ acc' = 0
  /\ ret' = IF norm' <= 0 THEN 0 ELSE ret
  /\ pc' = IF norm' <= 0 THEN "returned" ELSE "linesearch"
  /\ hist' = [hist EXCEPT
                !.improves = @ + 1,
                !.entry_cf = IF hist.improves = 0 THEN cf' ELSE @]
  /\ UNCHANGED <<n, d, pr, b, b0, j, status, app, op, err, oob, calls, reset>>

(* improve, lines 493-514: one iteration of the line search; on break the  *)
(* value improve returns.                                                  *)
line_search ==
  /\ pc = "linesearch"
  /\ newb' = Candidate(newb, gradient, step, d)
  /\ \E f \in [({newb'} \ DOMAIN memo) -> CostValues] :
       memo' = Extend(memo, f)
  /\ LET r == LineSearchBody(b, newb', cf, step, acc, cost_factor(memo', newb'))
     IN /\ b' = r.b
        /\ cf' = r.cf
        /\ step' = r.step
        /\ acc' = r.i
        /\ ret' = IF r.brk THEN ImproveReturn(r.cf, old_cf, r.i) ELSE ret
        /\ pc' = IF r.brk THEN "returned" ELSE "linesearch"
        /\ hist' = [hist EXCEPT !.call_acc = @ + (r.i - acc)]
  /\ UNCHANGED <<n, d, pr, b0, j, status, app, op, err, oob, old_cf, res,
                 norm, gradient, calls, reset>>

(* descent, line 519, and the end of optimize_pruning_coeffs, line 262:    *)
(* improve is called again while it returns non-zero; then b is saved.     *)
descent ==
  /\ pc = "returned"
  /\ IF DescentContinues(ret)
       THEN /\ pc' = "descent"
            /\ UNCHANGED <<pr, hist>>
       ELSE /\ pc' = "idle"
            /\ pr' = save_prunning_coeffs(pr, b, n, d)
            /\ hist' = [hist EXCEPT !.done = TRUE]
  /\ UNCHANGED <<n, d, b, b0, j, status, app, op, err, oob, cf, old_cf, newb,
                 res, norm, gradient, step, acc, ret, memo, calls, reset>>

NextOpt ==
  \/ optimize_pruning_coeffs
  \/ improve_begin
  \/ line_search
  \/ descent

SpecOpt ==
  InitOpt /\ [][NextOpt]_vars

InitRepeat ==
  /\ InitOpt
  /\ n <= MaxRepeatN

NextRepeat ==
  \/ optimize_pruning_coeffs
  \/ optimize_again
  \/ improve_begin
  \/ line_search
  \/ descent

SpecRepeat ==
  InitRepeat /\ [][NextRepeat]_vars

InitFair ==
  /\ InitOpt
  /\ n <= MaxFairN

(* The program runs on: a call that has started is not abandoned. *)
SpecOptFair ==
  /\ InitFair
  /\ [][NextOpt]_vars
  /\ WF_vars(improve_begin \/ line_search \/ descent)

(* The exported array is well formed (spec section 6). *)
WellFormedArray(p, nn, dd) ==
  /\ p[0] = one
  /\ \A i \in 0..(dd - 1) : p[nn - 1 - 2 * i] = p[nn - 2 - 2 * i]
  /\ \A k \in 1..(nn - 1) : p[k] <= p[k - 1]
  /\ \A k \in 0..(nn - 1) : Tenth <= p[k] /\ p[k] <= one

(* C3: in a call of optimize_pruning_coeffs (reset = 1, or reset = 0 from  *)
(* an array that loads), for even and odd n, b is feasible at every return *)
(* of init_prunning_coeffs, improve and descent, and the array the call    *)
(* exports has pr[0] = 1, pr[n-1-2i] = pr[n-2-2i], pr[k] <= pr[k-1] and    *)
(* 0.1 <= pr[k] <= 1.                                                      *)
OptimizeKeepsFeasible ==
  /\ pc \in {"descent", "linesearch", "returned"} => Feasible(b, d)
  /\ (pc = "idle" /\ hist.done) =>
       (Feasible(b, d) /\ WellFormedArray(pr, n, d))

(* C3 witness: a call with reset = 0 on an odd n with d >= 2 has accepted  *)
(* a step and returned.                                                    *)
OptimizeReturnedOddN ==
  /\ pc = "idle" /\ hist.done
  /\ reset = 0
  /\ n % 2 = 1 /\ d >= 2
  /\ hist.call_acc >= 1

(* C4: cost_factor(b) when descent returns is at most cost_factor(b) when  *)
(* descent was entered, and inside a call b is only ever replaced by a     *)
(* vector whose cost_factor is strictly lower than that of the b it        *)
(* replaces, in the last improve call (the one returning 0) as well.       *)
DescentNeverIncreasesCost ==
  /\ []((pc = "idle" /\ hist.done) => cost_factor(memo, b) <= hist.entry_cf)
  /\ [][(pc # "idle" /\ b' # b) =>
          (b \in DOMAIN memo /\ cost_factor(memo', b') < cost_factor(memo, b))]_vars

(* C4 witness: the improve call that returned 0 had accepted a step, and   *)
(* the call has returned with a lower cost_factor than it started from.    *)
LastImproveAcceptedAStep ==
  /\ pc = "idle" /\ hist.done
  /\ ret = 0 /\ acc >= 1
  /\ cost_factor(memo, b) < hist.entry_cf

(* C10: descent returns after the first improve call that returns 0 and    *)
(* not before; improve returns non-zero only after accepting a step and    *)
(* with cf <= min_cf_decrease * old_cf; and, cost_factor being positive,   *)
(* every call that has started returns.                                    *)
DescentStopsExactlyOnZero ==
  /\ [][pc = "returned" =>
          ((ret = 0 => pc' = "idle") /\ (ret # 0 => pc' = "descent"))]_vars
  /\ []((pc = "returned" /\ ret # 0) =>
          (acc >= 1 /\
           cf * min_cf_decrease_den <= old_cf * min_cf_decrease_num))
  /\ []((pc = "idle" /\ hist.done) => ret = 0)
  /\ (pc # "idle") ~> (pc = "idle")

(* C10 witness: descent has returned after improve first reported progress *)
(* and then returned 0.                                                    *)
DescentReturnedAfterProgress ==
  /\ pc = "idle" /\ hist.done
  /\ hist.improves >= 2
  /\ ret = 0

(* C6: a second optimize_pruning_coeffs(pr, reset = 0) on the array a      *)
(* completed call returned, shape and parameters unchanged, succeeds,      *)
(* accepts no step and returns the same array.                             *)
RepeatedOptimizeIsNoOp ==
  (pc = "idle" /\ calls = 2) =>
    (hist.done /\ err = "none" /\ pr = hist.prev_pr /\ hist.call_acc = 0)

(* C6 amended: the same, provided the last improve call of the first call  *)
(* accepted no step.                                                       *)
RepeatedOptimizeIsNoOpOnceNoStepAccepted ==
  (pc = "idle" /\ calls = 2 /\ hist.prev_fin = 0) =>
    (hist.done /\ err = "none" /\ pr = hist.prev_pr /\ hist.call_acc = 0)

(* C6 witness: the first call accepted steps, its last improve accepted    *)
(* none, and the repeated call has returned.                               *)
RepeatedAfterConvergence ==
  /\ pc = "idle" /\ calls = 2 /\ hist.done
  /\ hist.prev_acc >= 1
  /\ hist.prev_fin = 0
  /\ d >= 2

====
